---- MODULE Spec2Model ----
(***************************************************************************)
(* GaussianOutputModel of sktime.markovprocess.bhmm.output_models.gaussian *)
(* as a state machine: one object with fields n_states, _means, _sigmas,   *)
(* and one action per public operation.                                    *)
(*                                                                         *)
(* Numbers.  The object stores float64 values: binary floating point,      *)
(* every operation rounding its exact result to the nearest value of       *)
(* Precision significant bits, ties to even.  A value x is held here as    *)
(* the integer x * Unit and rounded in the same way at a small Precision;  *)
(* the non-finite values float64 arithmetic produces are the sentinels NaN *)
(* and Inf / -Inf with IEEE propagation.  Python indices 0..N-1 are the    *)
(* sequence positions 1..N.                                                *)
(***************************************************************************)
EXTENDS Integers, Sequences, FiniteSets, TLC

VARIABLES constructed, n_states, means, sigmas, calls, last, ret

vars == <<constructed, n_states, means, sigmas, calls, last, ret>>

\* ---------------------------------------------------------------- bounds
MaxStates == 2      \* n_states ranges over 1..MaxStates
MaxTraj == 2        \* fit: at most MaxTraj trajectories
MaxLen == 2         \* fit: at most MaxLen time points per trajectory
MaxPoints == 2      \* fit: at most MaxPoints time points over all trajectories
MaxObsLen == 2      \* sample: at most MaxObsLen observations per state
MaxAssigned == 3    \* sample: at most MaxAssigned observations over all states
MaxGen == 2         \* generate_*: at most MaxGen observations per call
MaxCalls == 2       \* method calls made on one object

\* ------------------------------------------------------- float64 numbers
Precision == 4                \* bits of the significand kept by an operation
Radix == 16                   \* 2^Precision
Unit == 1024                  \* the float64 1.0
Eps == 128                    \* np.finfo(float64).eps = 2^(1 - Precision)
Inf == 1000000000             \* float64 inf (NegInf is -Inf)
NaN == 2000000000             \* float64 nan

IsNaN(x) == x = NaN
IsInf(x) == x = Inf \/ x = -Inf
IsFinite(x) == ~IsNaN(x) /\ ~IsInf(x)
Sgn(x) == IF x > 0 THEN 1 ELSE IF x < 0 THEN -1 ELSE 0
Abs(x) == IF x < 0 THEN -x ELSE x

\* the spacing of the representable values around the magnitude a: the least
\* power of two q >= 1 with a < Radix * q, searched upward from q
RECURSIVE QuantumFrom(_, _)
QuantumFrom(a, q) == IF a < Radix * q THEN q ELSE QuantumFrom(a, 2 * q)

\* the same, the magnitudes below 4 * Unit decided by halving their range
Quantum(a) ==
    IF a >= 4 * Unit THEN QuantumFrom(a, (8 * Unit) \div Radix)
    ELSE IF a < Unit \div 4
         THEN (IF a < Unit \div 16 THEN QuantumFrom(a, 1)
               ELSE IF a < Unit \div 8 THEN Unit \div (8 * Radix)
               ELSE Unit \div (4 * Radix))
         ELSE IF a < Unit
              THEN (IF a < Unit \div 2 THEN Unit \div (2 * Radix)
                    ELSE Unit \div Radix)
              ELSE (IF a < 2 * Unit THEN (2 * Unit) \div Radix
                    ELSE (4 * Unit) \div Radix)

\* the representable value nearest to num / den (den # 0), ties to even
Round(num, den) ==
    LET a == Abs(num)
        d == Abs(den)
        q == Quantum(a \div d)
        m == a \div (d * q)
        r == a - m * d * q
        up == 2 * r > d * q \/ (2 * r = d * q /\ m % 2 = 1)
    IN  Sgn(num) * Sgn(den) * (IF up THEN m + 1 ELSE m) * q

FAdd(a, b) ==
    IF IsNaN(a) \/ IsNaN(b) THEN NaN
    ELSE IF IsInf(a) /\ IsInf(b) THEN (IF a = b THEN a ELSE NaN)
    ELSE IF IsInf(a) THEN a
    ELSE IF IsInf(b) THEN b
    ELSE Round(a + b, 1)

FNeg(a) == IF IsNaN(a) THEN NaN ELSE -a

FSub(a, b) == FAdd(a, FNeg(b))

FMul(a, b) ==
    IF IsNaN(a) \/ IsNaN(b) THEN NaN
    ELSE IF IsInf(a) \/ IsInf(b)
         THEN (IF a = 0 \/ b = 0 THEN NaN ELSE Sgn(a) * Sgn(b) * Inf)
    ELSE Round(a * b, Unit)

FDiv(a, b) ==
    IF IsNaN(a) \/ IsNaN(b) THEN NaN
    ELSE IF IsInf(a) THEN (IF IsInf(b) THEN NaN
                           ELSE IF b < 0 THEN -a ELSE a)
    ELSE IF IsInf(b) THEN 0
    ELSE IF b = 0 THEN (IF a = 0 THEN NaN ELSE Sgn(a) * Inf)
    ELSE Round(a * Unit, b)

\* the integer r in lo..hi with r*r <= n < (r+1)*(r+1), by bisection
RECURSIVE ISqrtIn(_, _, _)
ISqrtIn(n, lo, hi) ==
    IF lo >= hi THEN lo
    ELSE LET mid == (lo + hi + 1) \div 2
         IN  IF mid * mid <= n THEN ISqrtIn(n, mid, hi) ELSE ISqrtIn(n, lo, mid - 1)

\* the representable value nearest to the square root of n / Unit
RoundSqrt(n) ==
    LET s == ISqrtIn(n, 0, (n \div Unit) + Unit)
        q == Quantum(s)
        m == s \div q
        t == (2 * m * q + q) * (2 * m * q + q)
        up == 4 * n > t \/ (4 * n = t /\ m % 2 = 1)
    IN  (IF up THEN m + 1 ELSE m) * q

\* np.sqrt
FSqrt(a) ==
    IF IsNaN(a) THEN NaN
    ELSE IF a < 0 THEN NaN
    ELSE IF a = Inf THEN Inf
    ELSE RoundSqrt(a * Unit)

\* the float64 comparison a < b (False whenever an operand is nan)
FLess(a, b) == ~IsNaN(a) /\ ~IsNaN(b) /\ a < b

\* the float64 value of a Python int
FInt(n) == Round(n * Unit, 1)

\* np.zeros(n)
Zeros(n) == [i \in 1..n |-> 0]

\* ------------------------------------------------------------ constructor
None == [given |-> FALSE]
Some(a) == [given |-> TRUE, val |-> a]
IntArg(n) == [kind |-> "int", val |-> n]
ArrayArg(a) == [kind |-> "array", val |-> a]

\* ndarray.shape of the 1-D array built from the sequence a
Shape(a) == <<Len(a)>>

\* ndarray.squeeze(): axes of length 1 are dropped
SqueezedShape(a) == IF Len(a) = 1 THEN <<>> ELSE <<Len(a)>>

\* `shape != (n_states,)`: "differs", "same", or "ambiguous" when comparing
\* the tuples takes the truth value of an array that has not exactly one entry
ShapeCheck(shape, n) ==
    IF Len(shape) # 1 THEN "differs"
    ELSE IF n.kind = "int" THEN (IF shape[1] = n.val THEN "same" ELSE "differs")
    ELSE IF Len(n.val) # 1 THEN "ambiguous"
    ELSE IF FInt(shape[1]) = n.val[1] THEN "same" ELSE "differs"

Failed(exc) == [exc |-> exc]

\* a constructor that stores sigmas without comparing its shape to n_states
GaussianOutputModelUnchecked(n, m, s) ==
    LET mcheck == IF m.given THEN ShapeCheck(Shape(m.val), n) ELSE "same"
    IN  IF mcheck # "same" THEN Failed("ValueError")
        ELSE IF ~m.given /\ n.kind # "int" THEN Failed("TypeError")
        ELSE IF ~s.given /\ n.kind # "int" THEN Failed("TypeError")
        ELSE [exc |-> "none",
              n_states |-> n.val,
              means |-> IF m.given THEN m.val ELSE Zeros(n.val),
              sigmas |-> IF s.given THEN s.val ELSE Zeros(n.val)]

\* GaussianOutputModel.__init__(n_states, means, sigmas): the object built,
\* or the exception raised
GaussianOutputModel(n, m, s) ==
    LET mcheck == IF m.given THEN ShapeCheck(Shape(m.val), n) ELSE "same"
        scheck == IF s.given THEN ShapeCheck(SqueezedShape(s.val), n) ELSE "same"
    IN  IF mcheck # "same" THEN Failed("ValueError")
        ELSE IF ~m.given /\ n.kind # "int" THEN Failed("TypeError")
        ELSE IF scheck # "same" THEN Failed("ValueError")
        ELSE IF ~s.given /\ n.kind # "int" THEN Failed("TypeError")
        ELSE [exc |-> "none",
              n_states |-> n.val,
              means |-> IF m.given THEN m.val ELSE Zeros(n.val),
              sigmas |-> IF s.given THEN s.val ELSE Zeros(n.val)]

\* ------------------------------------------------------------------ inputs
\* constructor arguments
MeanArgVals == {Unit}
SigmaArgVals == {2 * Unit}
ArgSeqs(V) == UNION {[1..n -> V] : n \in 1..MaxStates}
MeanArgs == {None} \cup {Some(a) : a \in ArgSeqs(MeanArgVals)}
SigmaArgs == {None} \cup {Some(a) : a \in ArgSeqs(SigmaArgVals)}

\* fit: observation values (float64); the weights of a time point are its
\* state probabilities, a row of N values that sum to 1; trajectories of 1 to
\* MaxLen points, lists of 1 to MaxTraj trajectories and at most MaxPoints points
ObsVals == {0, (7 * Unit) \div 4}
WVals == {0, Unit \div 4, (3 * Unit) \div 4, Unit}
RECURSIVE RowSum(_, _)
RowSum(r, n) == IF n = 0 THEN 0 ELSE FAdd(RowSum(r, n - 1), r[n])
WRows(N) == {r \in [1..N -> WVals] : RowSum(r, N) = Unit}
Trajs(N, T) == [o : [1..T -> ObsVals], W : [1..T -> WRows(N)]]
Min(a, b) == IF a < b THEN a ELSE b
\* the lists of K trajectories holding at most B points together
RECURSIVE TrajLists(_, _, _)
TrajLists(N, K, B) ==
    IF K = 0 THEN {<<>>}
    ELSE UNION {{Append(ts, tr) : ts \in TrajLists(N, K - 1, B - T), tr \in Trajs(N, T)} :
                   T \in 1..Min(MaxLen, B - (K - 1))}
FitInputs ==
    [N \in 1..MaxStates |-> UNION {TrajLists(N, K, MaxPoints) : K \in 1..MaxTraj}]

\* sample: the observations assigned to one state, and what the two random
\* draws np.random.randn() and np.random.chisquare(n - 1) may return
ObsArrays == UNION {[1..n -> ObsVals] : n \in 0..MaxObsLen}
ZVals == {-Unit, 2 * Unit}
ChiVals == {Unit, 4 * Unit}
NoDraw == 0
StateDraws ==
    UNION {[o : {a}, z : IF Len(a) > 0 THEN ZVals ELSE {NoDraw},
            chi : IF Len(a) > 1 THEN ChiVals ELSE {NoDraw}] : a \in ObsArrays}
RECURSIVE Assigned(_)
Assigned(ds) == IF ds = <<>> THEN 0 ELSE Len(Head(ds).o) + Assigned(Tail(ds))
SampleInputs ==
    [N \in 1..MaxStates |->
        {ds \in [1..N -> StateDraws] : Assigned(ds) <= MaxAssigned}]

\* generate_*: state sequences and standard normal draws
GenSeqs(V) == UNION {[1..n -> V] : n \in 0..MaxGen}

\* sub_output_model: non-empty lists of state indices
SubLists(N) == UNION {[1..n -> 1..N] : n \in 1..MaxStates}

\* ------------------------------------------------------------------- state
NoCall == [op |-> "none", exc |-> "none"]
NoRet == [kind |-> "none"]

Init ==
    /\ constructed = FALSE
    /\ n_states = 0
    /\ means = <<>>
    /\ sigmas = <<>>
    /\ calls = 0
    /\ last = NoCall
    /\ ret = NoRet

\* GaussianOutputModel(n_states=n, means=m, sigmas=s)
Construct(n, m, s) ==
    LET obj == GaussianOutputModel(IntArg(n), m, s)
    IN  /\ ~constructed
        /\ last.op = "none"
        /\ last' = [op |-> "__init__", exc |-> obj.exc,
                    n_states |-> n, means |-> m, sigmas |-> s]
        /\ IF obj.exc = "none"
           THEN /\ constructed' = TRUE
                /\ n_states' = obj.n_states
                /\ means' = obj.means
                /\ sigmas' = obj.sigmas
           ELSE UNCHANGED <<constructed, n_states, means, sigmas>>
        /\ UNCHANGED <<calls, ret>>

\* a method call needs the object; at most MaxCalls calls are followed
CanCall == constructed /\ calls < MaxCalls

\* what every method call records: the operation, how it ended, and the
\* parameters the object held when it was called
Call(op, exc) ==
    [op |-> op, exc |-> exc, pre_n |-> n_states,
     pre_means |-> means, pre_sigmas |-> sigmas]

\* --------------------------------------------------------------------- fit
\* np.dot(weights[k][:, i], y) over the time points 1..t
RECURSIVE Dot(_, _, _, _)
Dot(W, i, y, t) ==
    IF t = 0 THEN 0 ELSE FAdd(Dot(W, i, y, t - 1), FMul(W[t][i], y[t]))

\* np.sum(weights[k], axis=0)[i] over the time points 1..t
RECURSIVE ColSum(_, _, _)
ColSum(W, i, t) == IF t = 0 THEN 0 ELSE FAdd(ColSum(W, i, t - 1), W[t][i])

\* (observations[k] - mu) ** 2
SqDev(o, mu) == [t \in 1..Len(o) |-> FMul(FSub(o[t], mu), FSub(o[t], mu))]

\* the loop `for k in range(K)` over trajectories 1..k: the denominator w_sum[i]
RECURSIVE WSumLoop(_, _, _)
WSumLoop(weights, i, k) ==
    IF k = 0 THEN 0
    ELSE FAdd(WSumLoop(weights, i, k - 1), ColSum(weights[k], i, Len(weights[k])))

\* the same loop, the nominator of means[i]
RECURSIVE MeanNumLoop(_, _, _, _)
MeanNumLoop(observations, weights, i, k) ==
    IF k = 0 THEN 0
    ELSE FAdd(MeanNumLoop(observations, weights, i, k - 1),
              Dot(weights[k], i, observations[k], Len(observations[k])))

\* the second loop, the nominator of sigmas[i], about the mean mu
RECURSIVE VarNumLoop(_, _, _, _, _)
VarNumLoop(observations, weights, i, mu, k) ==
    IF k = 0 THEN 0
    ELSE FAdd(VarNumLoop(observations, weights, i, mu, k - 1),
              Dot(weights[k], i, SqDev(observations[k], mu), Len(observations[k])))

\* `# fit means`: self._means after `self._means /= w_sum`
FitMeans(N, observations, weights) ==
    [i \in 1..N |->
        FDiv(MeanNumLoop(observations, weights, i, Len(observations)),
             WSumLoop(weights, i, Len(observations)))]

\* `# fit variances`: self._sigmas after the division and np.sqrt, the
\* deviations taken about mu = self.means as the first half left them
FitSigmas(N, observations, weights, mu) ==
    [i \in 1..N |->
        FSqrt(FDiv(VarNumLoop(observations, weights, i, mu[i], Len(observations)),
                   WSumLoop(weights, i, Len(observations))))]

\* np.any(self._sigmas < np.finfo(self._sigmas.dtype).eps)
TooSmall(sig) == \E i \in 1..Len(sig) : FLess(sig[i], Eps)

\* a fit that takes the deviations about the means held before the call
FitStale(observations, weights) ==
    /\ calls' = calls + 1
    /\ means' = FitMeans(n_states, observations, weights)
    /\ sigmas' = FitSigmas(n_states, observations, weights, means)
    /\ last' = Call("fit", IF TooSmall(sigmas') THEN "RuntimeError" ELSE "none")
                @@ [observations |-> observations, weights |-> weights]
    /\ UNCHANGED <<constructed, n_states, ret>>

\* output_model.fit(observations, weights)
Fit(observations, weights) ==
    /\ calls' = calls + 1
    /\ means' = FitMeans(n_states, observations, weights)
    /\ sigmas' = FitSigmas(n_states, observations, weights, means')
    /\ last' = Call("fit", IF TooSmall(sigmas') THEN "RuntimeError" ELSE "none")
                @@ [observations |-> observations, weights |-> weights]
    /\ UNCHANGED <<constructed, n_states, ret>>

\* ------------------------------------------------------------------ sample
\* the sum of the array a over the positions 1..t
RECURSIVE Sum(_, _)
Sum(a, t) == IF t = 0 THEN 0 ELSE FAdd(Sum(a, t - 1), a[t])

\* np.mean(a), a not empty
Mean(a) == FDiv(Sum(a, Len(a)), FInt(Len(a)))

\* np.random.randn() * sigma / np.sqrt(n) + np.mean(obs), z the draw
SampleMean(sigma, obs, z) ==
    FAdd(FDiv(FMul(z, sigma), FSqrt(FInt(Len(obs)))), Mean(obs))

\* np.sqrt(sigmahat2) / np.sqrt(chisquared / n), sigmahat2 the mean squared
\* deviation of obs from mu, chi the draw
SampleSigma(obs, mu, chi) ==
    FDiv(FSqrt(Mean(SqDev(obs, mu))), FSqrt(FDiv(chi, FInt(Len(obs)))))

\* a loop body that redraws sigma from a single observation (n > 0 for n > 1)
SampleStepEager(p, i, obs, z, chi) ==
    LET n == Len(obs)
        mu == IF n > 0 THEN SampleMean(p.sigmas[i], obs, z) ELSE p.means[i]
        sg == IF n > 0 THEN SampleSigma(obs, mu, chi) ELSE p.sigmas[i]
    IN  [means |-> [p.means EXCEPT ![i] = mu],
         sigmas |-> [p.sigmas EXCEPT ![i] = sg]]

\* a loop body that takes the second moment about the mean held before
SampleStepStale(p, i, obs, z, chi) ==
    LET n == Len(obs)
        mu == IF n > 0 THEN SampleMean(p.sigmas[i], obs, z) ELSE p.means[i]
        sg == IF n > 1 THEN SampleSigma(obs, p.means[i], chi) ELSE p.sigmas[i]
    IN  [means |-> [p.means EXCEPT ![i] = mu],
         sigmas |-> [p.sigmas EXCEPT ![i] = sg]]

\* one pass of the loop body, for state i, on the parameters p so far
SampleStep(p, i, obs, z, chi) ==
    LET n == Len(obs)
        mu == IF n > 0 THEN SampleMean(p.sigmas[i], obs, z) ELSE p.means[i]
        sg == IF n > 1 THEN SampleSigma(obs, mu, chi) ELSE p.sigmas[i]
    IN  [means |-> [p.means EXCEPT ![i] = mu],
         sigmas |-> [p.sigmas EXCEPT ![i] = sg]]

\* `for state_index in range(self.n_states)`: the parameters after the
\* states 1..i were processed, starting from p
RECURSIVE SampleLoop(_, _, _)
SampleLoop(p, ds, i) ==
    IF i = 0 THEN p
    ELSE SampleStep(SampleLoop(p, ds, i - 1), i, ds[i].o, ds[i].z, ds[i].chi)

\* the states warnings.warn is called for
Warned(observations) == {i \in 1..Len(observations) : Len(observations[i]) = 0}

\* output_model.sample(observations); ds[i] holds observations[i] and the
\* values the random draws made for state i return
Sample(ds) ==
    LET observations == [i \in 1..Len(ds) |-> ds[i].o]
    IN  /\ calls' = calls + 1
        /\ \E q \in {SampleLoop([means |-> means, sigmas |-> sigmas], ds, n_states)} :
              /\ means' = q.means
              /\ sigmas' = q.sigmas
        /\ last' = Call("sample", "none")
                    @@ [observations |-> observations,
                        z |-> [i \in 1..Len(ds) |-> ds[i].z],
                        chi |-> [i \in 1..Len(ds) |-> ds[i].chi],
                        warned |-> Warned(observations)]
        /\ UNCHANGED <<constructed, n_states, ret>>

\* ------------------------------------------------- read-only operations
\* output_model.p_obs(obs): the parameters are handed to the density
\* routine and the result to the outlier handler; neither is assigned
P_obs(obs) ==
    /\ calls' = calls + 1
    /\ last' = Call("p_obs", "none") @@ [obs |-> obs]
    /\ ret' = [kind |-> "p_obs"]
    /\ UNCHANGED <<constructed, n_states, means, sigmas>>

\* self.sigmas[state_index] * np.random.randn() + self.means[state_index]
Draw(state_index, z) == FAdd(FMul(sigmas[state_index], z), means[state_index])

\* output_model.generate_observation_from_state(state_index)
GenerateObservationFromState(state_index, z) ==
    /\ calls' = calls + 1
    /\ last' = Call("generate_observation_from_state", "none")
                @@ [state_index |-> state_index, z |-> z]
    /\ ret' = [kind |-> "float", val |-> Draw(state_index, z)]
    /\ UNCHANGED <<constructed, n_states, means, sigmas>>

\* output_model.generate_observations_from_state(state_index, nobs), zs the
\* nobs draws of np.random.randn(nobs)
GenerateObservationsFromState(state_index, zs) ==
    /\ calls' = calls + 1
    /\ last' = Call("generate_observations_from_state", "none")
                @@ [state_index |-> state_index, nobs |-> Len(zs), z |-> zs]
    /\ ret' = [kind |-> "array",
               val |-> [t \in 1..Len(zs) |-> Draw(state_index, zs[t])]]
    /\ UNCHANGED <<constructed, n_states, means, sigmas>>

\* output_model.generate_observation_trajectory(s_t), zs[t] the draw at time t
GenerateObservationTrajectory(s_t, zs) ==
    /\ calls' = calls + 1
    /\ last' = Call("generate_observation_trajectory", "none")
                @@ [s_t |-> s_t, z |-> zs]
    /\ ret' = [kind |-> "array",
               val |-> [t \in 1..Len(s_t) |-> Draw(s_t[t], zs[t])]]
    /\ UNCHANGED <<constructed, n_states, means, sigmas>>

\* self._means[states]: the entries at the listed indices, in that order
Take(a, states) == [j \in 1..Len(states) |-> a[states[j]]]

\* output_model.sub_output_model(states): the constructor is called with
\* two positional arguments, which it binds to n_states and means
Sub_output_model(states) ==
    LET obj == GaussianOutputModel(ArrayArg(Take(means, states)),
                                   Some(Take(sigmas, states)), None)
    IN  /\ calls' = calls + 1
        /\ last' = Call("sub_output_model", obj.exc) @@ [states |-> states]
        /\ ret' = IF obj.exc = "none"
                  THEN [kind |-> "model", n_states |-> obj.n_states,
                        means |-> obj.means, sigmas |-> obj.sigmas]
                  ELSE [kind |-> "raised"]
        /\ UNCHANGED <<constructed, n_states, means, sigmas>>

\* -------------------------------------------------------------------- calls
ConstructCall ==
    \E n \in 1..MaxStates, m \in MeanArgs, s \in SigmaArgs : Construct(n, m, s)

FitCall ==
    /\ CanCall
    /\ \E ts \in FitInputs[n_states] :
          Fit([k \in 1..Len(ts) |-> ts[k].o], [k \in 1..Len(ts) |-> ts[k].W])

SampleCall ==
    /\ CanCall
    /\ \E ds \in SampleInputs[n_states] : Sample(ds)

P_obsCall ==
    /\ CanCall
    /\ \E obs \in GenSeqs(ObsVals) : P_obs(obs)

GenerateOneCall ==
    /\ CanCall
    /\ \E i \in 1..n_states, z \in ZVals : GenerateObservationFromState(i, z)

GenerateManyCall ==
    /\ CanCall
    /\ \E i \in 1..n_states, zs \in GenSeqs(ZVals) :
          GenerateObservationsFromState(i, zs)

GenerateTrajectoryCall ==
    /\ CanCall
    /\ \E s_t \in GenSeqs(1..n_states) : \E zs \in [1..Len(s_t) -> ZVals] :
          GenerateObservationTrajectory(s_t, zs)

SubCall ==
    /\ CanCall
    /\ \E states \in SubLists(n_states) : Sub_output_model(states)

Next ==
    \/ ConstructCall
    \/ FitCall
    \/ SampleCall
    \/ P_obsCall
    \/ GenerateOneCall
    \/ GenerateManyCall
    \/ GenerateTrajectoryCall
    \/ SubCall

Spec == Init /\ [][Next]_vars
\* =================================================================== claims
\* what the formulas below read off the recorded call
IsCall(op) == last.op = op
Returned == last.exc = "none"
States == 1..n_states
Positive(x) == IsFinite(x) /\ x > 0

\* sum_k sum_t f[k][t] over the time points of the recorded fit call, the
\* inner sums taken first, each from its first term on
NestedSum(f) == Sum([k \in 1..Len(f) |-> Sum(f[k], Len(f[k]))], Len(f))

\* one value per time point (k, t) of the recorded fit call
PerPoint(g(_, _)) ==
    [k \in 1..Len(last.observations) |->
        [t \in 1..Len(last.observations[k]) |-> g(k, t)]]

\* w_sum[i], the weighted mean and the weighted standard deviation about mu
\* of the recorded fit call
TotalWeight(i) ==
    LET w(k, t) == last.weights[k][t][i]
    IN  NestedSum(PerPoint(w))

WeightedMean(i) ==
    LET wx(k, t) == FMul(last.weights[k][t][i], last.observations[k][t])
    IN  FDiv(NestedSum(PerPoint(wx)), TotalWeight(i))

WeightedStd(i, mu) ==
    LET wd2(k, t) == FMul(last.weights[k][t][i],
                          FMul(FSub(last.observations[k][t], mu),
                               FSub(last.observations[k][t], mu)))
    IN  FSqrt(FDiv(NestedSum(PerPoint(wd2)), TotalWeight(i)))

\* the weights of the recorded fit call are one-hot: every time point has
\* weight 1 for one state and 0 for the others
OneHot ==
    \A k \in 1..Len(last.weights) : \A t \in 1..Len(last.weights[k]) :
        /\ \A i \in States : last.weights[k][t][i] \in {0, Unit}
        /\ Cardinality({i \in States : last.weights[k][t][i] = Unit}) = 1

\* the partition of state i under one-hot weights: its number of points, its
\* sample mean and its population standard deviation about mu
PartCount(i) ==
    Cardinality(UNION {{<<k, t>> : t \in {u \in 1..Len(last.weights[k]) :
                                               last.weights[k][u][i] = Unit}} :
                          k \in 1..Len(last.weights)})

PartMean(i) ==
    LET x(k, t) == IF last.weights[k][t][i] = Unit
                   THEN last.observations[k][t] ELSE 0
    IN  FDiv(NestedSum(PerPoint(x)), FInt(PartCount(i)))

PartStd(i, mu) ==
    LET d2(k, t) == IF last.weights[k][t][i] = Unit
                    THEN FMul(FSub(last.observations[k][t], mu),
                              FSub(last.observations[k][t], mu))
                    ELSE 0
    IN  FSqrt(FDiv(NestedSum(PerPoint(d2)), FInt(PartCount(i))))

\* C1: sub_output_model(S) returns a model of len(S) states whose j-th mean
\* and sigma are the parent's mean and sigma of state S[j].
C1_SubModelCarriesParentEntries ==
    IsCall("sub_output_model") =>
        /\ ret.kind = "model"
        /\ ret.n_states = Len(last.states)
        /\ \A j \in 1..Len(last.states) :
              /\ ret.means[j] = last.pre_means[last.states[j]]
              /\ ret.sigmas[j] = last.pre_sigmas[last.states[j]]

\* C2: when fit raises the fitting error, means and sigmas are the values
\* they had before the call.
C2_RaisingFitKeepsParameters ==
    (IsCall("fit") /\ last.exc = "RuntimeError") =>
        (means = last.pre_means /\ sigmas = last.pre_sigmas)

\* C3: after a fit or sample call that returned without raising, every sigma
\* is strictly positive and finite.
C3_SigmasPositiveAfterSuccess ==
    ((IsCall("fit") \/ IsCall("sample")) /\ Returned) =>
        \A i \in States : Positive(sigmas[i])

\* C4: a fit call in which some state receives total weight zero raises the
\* fitting error; no fit returns normally with a non-finite mean or sigma.
C4_UnweightedStateRaises ==
    IsCall("fit") =>
        /\ (\E i \in States : TotalWeight(i) = 0) => last.exc = "RuntimeError"
        /\ Returned => \A i \in States : IsFinite(means[i]) /\ IsFinite(sigmas[i])

\* C5: the constructor fails with ValueError, producing no object, when a
\* given means or sigmas sequence has a length other than n_states, and
\* succeeds, storing the given values, when every given sequence has length
\* n_states (for every n_states >= 1).
C5_ConstructorChecksLengths ==
    IsCall("__init__") =>
        LET n == last.n_states
            m == last.means
            s == last.sigmas
            mismatch == \/ (m.given /\ Len(m.val) # n)
                        \/ (s.given /\ Len(s.val) # n)
        IN  /\ mismatch => (last.exc = "ValueError" /\ ~constructed)
            /\ ~mismatch =>
                  /\ Returned /\ constructed /\ n_states = n
                  /\ m.given => means = m.val
                  /\ s.given => sigmas = s.val

\* C6: sample leaves mean and sigma of a state without observations unchanged
\* (warning about it and completing), leaves sigma of a state with exactly one
\* observation unchanged while redrawing its mean, and changes a sigma only
\* for a state with at least two observations.
C6_SampleFrame ==
    IsCall("sample") =>
        /\ Returned
        /\ \A i \in States :
              LET n == Len(last.observations[i])
              IN  /\ (n = 0) => /\ means[i] = last.pre_means[i]
                                /\ sigmas[i] = last.pre_sigmas[i]
                                /\ i \in last.warned
                  /\ (n = 1) => /\ sigmas[i] = last.pre_sigmas[i]
                                /\ means[i] = FAdd(FMul(last.z[i], last.pre_sigmas[i]),
                                                   last.observations[i][1])
                  /\ (sigmas[i] # last.pre_sigmas[i]) => n >= 2

C6_Witness ==
    /\ IsCall("sample")
    /\ \E i, j \in States :
          /\ Len(last.observations[i]) = 0
          /\ Len(last.observations[j]) = 1
          /\ means[j] # last.pre_means[j]
          /\ sigmas[j] = last.pre_sigmas[j]
          /\ Positive(sigmas[j])

\* C7: a successful fit in which every state has positive total weight sets
\* means[i] to the weighted mean over all trajectories and time points and
\* sigmas[i] to the weighted standard deviation about that new mean, so both
\* are determined by the observations and weights alone; with one-hot weights
\* these are the sample mean and the population standard deviation of the
\* state's partition.
C7_FitIsWeightedMLE ==
    (IsCall("fit") /\ Returned /\ \A i \in States : TotalWeight(i) > 0) =>
        \A i \in States :
            /\ means[i] = WeightedMean(i)
            /\ sigmas[i] = WeightedStd(i, means[i])
            /\ OneHot => /\ means[i] = PartMean(i)
                         /\ sigmas[i] = PartStd(i, means[i])

C7_Witness ==
    /\ IsCall("fit") /\ Returned
    /\ Len(last.observations) = 2
    /\ n_states = 2
    /\ ~OneHot
    /\ \A i \in States : TotalWeight(i) > 0 /\ means[i] # last.pre_means[i]
                         /\ Positive(sigmas[i])
    /\ means[1] # means[2]

\* C8: fit raises the fitting error exactly when, with the sigmas of all
\* states computed, some sigma is below machine epsilon; it does so in
\* particular when the positively weighted observations of a state all have
\* the same value.
C8_FitRaisesIffSigmaBelowEps ==
    IsCall("fit") =>
        /\ (last.exc = "RuntimeError") <=>
              (\E i \in States : ~IsNaN(sigmas[i]) /\ sigmas[i] < Eps)
        /\ last.exc \in {"none", "RuntimeError"}
        /\ \A i \in States : TotalWeight(i) > 0 => sigmas[i] = WeightedStd(i, means[i])
        /\ (\E i \in States : \E v \in ObsVals :
               /\ TotalWeight(i) > 0
               /\ \A k \in 1..Len(last.weights) : \A t \in 1..Len(last.weights[k]) :
                     last.weights[k][t][i] > 0 => last.observations[k][t] = v)
           => last.exc = "RuntimeError"

\* C9: in every state of a constructed object, whatever calls were made and
\* however they ended, means and sigmas have n_states entries each, and
\* n_states is the value given at construction.
C9_LengthsAreNStates ==
    constructed =>
        /\ Len(means) = n_states
        /\ Len(sigmas) = n_states
        /\ DOMAIN means = 1..n_states
        /\ DOMAIN sigmas = 1..n_states
        /\ n_states = IF IsCall("__init__") THEN last.n_states ELSE last.pre_n

C9_Witness ==
    /\ constructed
    /\ calls >= 2
    /\ IsCall("fit") /\ last.exc = "RuntimeError"
    /\ n_states = 2

\* C10: in a sample call, a state with n >= 2 observations gets the mean
\* (empirical mean) + Z * (sigma before the call) / sqrt(n), and then the
\* sigma sqrt(mean((obs - new mean)^2)) / sqrt(chisq / n); both depend on no
\* parameter of another state.
C10_SampleMeanThenSigma ==
    IsCall("sample") =>
        \A i \in States :
            LET obs == last.observations[i]
                n == Len(obs)
                sqrtn == FSqrt(FInt(n))
                moment == FDiv(Sum(SqDev(obs, means[i]), n), FInt(n))
            IN  n >= 2 =>
                  /\ means[i] = FAdd(FDiv(FMul(last.z[i], last.pre_sigmas[i]), sqrtn),
                                     FDiv(Sum(obs, n), FInt(n)))
                  /\ sigmas[i] = FDiv(FSqrt(moment),
                                      FSqrt(FDiv(last.chi[i], FInt(n))))

C10_Witness ==
    /\ IsCall("sample")
    /\ n_states = 2
    /\ Len(last.observations[1]) >= 1
    /\ Len(last.observations[2]) >= 2
    /\ Positive(last.pre_sigmas[2])
    /\ means[1] # last.pre_means[1]
    /\ means[2] # Mean(last.observations[2])
    /\ means[2] # last.pre_means[2]
    /\ sigmas[2] # last.pre_sigmas[2]
    /\ Positive(sigmas[2])
====
